---- MODULE Spec2Model ----
(***************************************************************************)
(* Model of integrated_gifted_dashboard_recommendations.py: the rate       *)
(* analyzer (_safe_rate, selection_rate, group_rates, disparity_table)     *)
(* and the Streamlit script that drives it.                                *)
(*                                                                         *)
(* Floats are modelled as exact rationals <<num, den>> in lowest terms     *)
(* with den > 0; NaN is <<0, 0>>.  A cell of a column is a record          *)
(* [t, x]: t = "num" a number x, t = "nan" a missing value (NaN/None),     *)
(* t = "str" a text value that float() cannot convert.                     *)
(***************************************************************************)
EXTENDS Integers, Sequences, FiniteSets, TLC

VARIABLES df, ref, op, rate, tbl, raised,
          pc, uploaded, columns, col_map, use_latest_year, min_group_size,
          calls, disp, shown

vars == <<df, ref, op, rate, tbl, raised,
          pc, uploaded, columns, col_map, use_latest_year, min_group_size,
          calls, disp, shown>>

(* ------------------------------ bounds -------------------------------- *)
MaxRows == 3
MaxRowsUI == 3
MaxMinGroupSize == 2

\* outcome values: 0/1 per student, 2 a count of a pre-aggregated row
OutcomeValues == {0, 1, 2}

(* ------------------------------ floats -------------------------------- *)
NaN == <<0, 0>>

IsNaN(x) == x[2] = 0

Abs(a) == IF a < 0 THEN 0 - a ELSE a

RECURSIVE Gcd(_, _)
Gcd(a, b) == IF b = 0 THEN a ELSE Gcd(b, a % b)

\* the float n / d for d > 0
Float(n, d) == LET g == Gcd(Abs(n), d) IN <<n \div g, d \div g>>

\* a - b on floats: NaN propagates
FSub(a, b) ==
    IF IsNaN(a) \/ IsNaN(b) THEN NaN
    ELSE Float(a[1] * b[2] - b[1] * a[2], a[2] * b[2])

\* a / b on floats for b > 0 (the code guards every division): NaN propagates
FDiv(a, b) ==
    IF IsNaN(a) \/ IsNaN(b) \/ b[1] <= 0 THEN NaN
    ELSE Float(a[1] * b[2], a[2] * b[1])

\* a > b on floats; any comparison with NaN is false
FGt(a, b) == ~IsNaN(a) /\ ~IsNaN(b) /\ a[1] * b[2] > b[1] * a[2]

\* Python truth value of a float: only 0.0 is false (NaN is true)
Truthy(x) == IsNaN(x) \/ x[1] # 0

Zero == <<0, 1>>

(* ------------------------------- cells -------------------------------- *)
Num(k) == [t |-> "num", x |-> k]

NaNCell == [t |-> "nan", x |-> 0]

StrCell == [t |-> "str", x |-> 0]

Cells == {Num(k) : k \in OutcomeValues} \cup {NaNCell, StrCell}

\* group labels in ascending order; NULL is the missing label (NaN)
Labels == <<"F", "M">>

NULL == "<NA>"

AllLabels == Labels \o <<NULL>>

LabelSet == {AllLabels[i] : i \in 1..Len(AllLabels)}

(* ------------------------------ _safe_rate ---------------------------- *)
\* Series.astype(float) raises on a text value that is no number
AsTypeFloatRaises(col) == \E i \in 1..Len(col) : col[i].t = "str"

RECURSIVE SumFrom(_, _)
SumFrom(col, i) ==
    IF i > Len(col) THEN 0
    ELSE (IF col[i].t = "num" THEN col[i].x ELSE 0) + SumFrom(col, i + 1)

\* np.nansum: NaN counts as zero, so the sum of no numbers is 0
NanSum(col) == SumFrom(col, 1)

HasNaN(col) == \E i \in 1..Len(col) : col[i].t = "nan"

\* _safe_rate with np.sum in place of np.nansum: one NaN makes the sum, and
\* so the rate, NaN (mutant of safe_rate)
safe_rate_np_sum(numer, denom) ==
    IF AsTypeFloatRaises(numer) \/ AsTypeFloatRaises(denom) THEN NaN
    ELSE IF HasNaN(numer) \/ HasNaN(denom) THEN NaN
    ELSE IF NanSum(denom) > 0 THEN Float(NanSum(numer), NanSum(denom)) ELSE NaN

\* float(np.nansum(x.astype(float))) for both, n / d if d > 0 else nan; any
\* exception gives nan
safe_rate(numer, denom) ==
    IF AsTypeFloatRaises(numer) \/ AsTypeFloatRaises(denom) THEN NaN
    ELSE LET n == NanSum(numer)
             d == NanSum(denom)
         IN  IF d > 0 THEN Float(n, d) ELSE NaN

\* np.ones(k - 1): an off-by-one denominator (the mutant of Ones)
OnesShort(k) == [i \in 1..(k - 1) |-> Num(1)]

\* pd.Series(np.ones(k))
Ones(k) == [i \in 1..k |-> Num(1)]

Column(d) == [i \in 1..Len(d) |-> d[i].v]

selection_rate(d) == safe_rate(Column(d), Ones(Len(d)))

(* ------------------------------ group_rates --------------------------- *)
HasLabel(d, k) == \E i \in 1..Len(d) : d[i].g = k

\* the rows of one group, in dataset order
SubDf(d, k) == SelectSeq(d, LAMBDA r : r.g = k)

\* groupby(group_col, dropna=True): the missing label is no group (mutant)
GroupKeysDropNa(d) == SelectSeq(Labels, LAMBDA k : HasLabel(d, k))

\* groupby(group_col, dropna=False): keys ascending, the missing label last
GroupKeys(d) == SelectSeq(AllLabels, LAMBDA k : HasLabel(d, k))

\* value_counts(dropna=False)
ValueCounts(d, k) == Len(SubDf(d, k))

\* g.merge(totals, on=group_col, how="left"): one row per group key
Merged(d) ==
    LET keys == GroupKeys(d)
    IN  [i \in 1..Len(keys) |->
            [g |-> keys[i],
             rate |-> selection_rate(SubDf(d, keys[i])),
             n |-> ValueCounts(d, keys[i])]]

Perms(n) == {p \in [1..n -> 1..n] : \A i, j \in 1..n : p[i] = p[j] => i = j}

\* sort_values("rate") ascending (mutant of SortValues)
SortValuesAscending(t) ==
    LET n == Len(t)
    IN  {[i \in 1..n |-> t[p[i]]] : p \in
           {q \in Perms(n) :
              \A i, j \in 1..n : i < j =>
                 /\ ~FGt(t[q[i]].rate, t[q[j]].rate)
                 /\ (IsNaN(t[q[i]].rate) => IsNaN(t[q[j]].rate) /\ q[i] < q[j])}}

\* sort_values("rate", ascending=False): kind defaults to quicksort, which is
\* not a stable sort, so rows of equal rate may come out in any order; NaN
\* rates go last (na_position="last") in their original order
SortValues(t) ==
    LET n == Len(t)
    IN  {[i \in 1..n |-> t[p[i]]] : p \in
           {q \in Perms(n) :
              \A i, j \in 1..n : i < j =>
                 /\ ~FGt(t[q[j]].rate, t[q[i]].rate)
                 /\ (IsNaN(t[q[i]].rate) => IsNaN(t[q[j]].rate) /\ q[i] < q[j])}}

\* On a frame with no rows groupby(...).apply(...) yields an empty DataFrame
\* (not a Series), and DataFrame.reset_index has no keyword "name": TypeError
GroupRatesRaises(d) == Len(d) = 0

\* the tables group_rates can return
group_rates(d) == SortValues(Merged(d))

(* ---------------------------- disparity_table ------------------------- *)
NoRef == "None"

\* a label that occurs in no dataset
Absent == "Z"

RefArgs == {NoRef, Absent} \cup {Labels[i] : i \in 1..Len(Labels)}

\* reference = rates.iloc[-1][group_col]: the last row, the lowest rate
\* (mutant of DefaultReference)
DefaultReferenceLast(reference, rates) ==
    IF reference = NoRef /\ Len(rates) > 0 THEN rates[Len(rates)].g ELSE reference

\* line 49-50: reference = rates.iloc[0][group_col]
DefaultReference(reference, rates) ==
    IF reference = NoRef /\ Len(rates) > 0 THEN rates[1].g ELSE reference

\* rates[group_col] == reference: NaN equals nothing, itself included
Matches(rates, reference) ==
    SelectSeq(rates, LAMBDA r : r.g # NULL /\ r.g = reference)

\* ref_rate = overall whatever the reference (mutant of RefRate)
RefRateOverall(rates, reference, overall) == overall

\* line 52-55: .values[0] of no match raises IndexError, caught
RefRate(rates, reference, overall) ==
    IF Len(Matches(rates, reference)) > 0
    THEN Matches(rates, reference)[1].rate
    ELSE overall

Usable(x) == Truthy(x) /\ ~IsNaN(x) /\ FGt(x, Zero)

\* the table built from one outcome `rates` of group_rates
disparity_rows(d, reference, rates) ==
    LET overall == selection_rate(d)
        rf == DefaultReference(reference, rates)
        ref_rate == RefRate(rates, rf, overall)
    IN  [i \in 1..Len(rates) |->
            [g |-> rates[i].g,
             rate |-> rates[i].rate,
             n |-> rates[i].n,
             rate_diff_vs_overall |-> FSub(rates[i].rate, overall),
             risk_ratio_vs_overall |->
                 IF Usable(overall) THEN FDiv(rates[i].rate, overall) ELSE NaN,
             rate_vs_ref |->
                 IF Usable(ref_rate) THEN FDiv(rates[i].rate, ref_rate) ELSE NaN,
             reference_group |-> rf]]

disparity_table(d, reference) ==
    {disparity_rows(d, reference, rates) : rates \in group_rates(d)}

(* --------------------------- analyzer calls --------------------------- *)
Rows == [g : LabelSet, v : Cells]

Datasets == UNION {[1..n -> Rows] : n \in 0..MaxRows}

\* the worked example: 6 F rows then 4 M rows, outcome 0 or 1 on each
ExampleGroups == <<"F", "F", "F", "F", "F", "F", "M", "M", "M", "M">>

ExampleDatasets ==
    {[i \in 1..Len(ExampleGroups) |-> [g |-> ExampleGroups[i], v |-> Num(o[i])]] :
        o \in [1..Len(ExampleGroups) -> {0, 1}]}

UIIdle ==
    /\ pc = "none"
    /\ uploaded = FALSE
    /\ columns = {}
    /\ col_map = <<>>
    /\ use_latest_year = FALSE
    /\ min_group_size = 1
    /\ calls = <<>>
    /\ disp = <<>>
    /\ shown = {}

UIVars == <<pc, uploaded, columns, col_map, use_latest_year, min_group_size,
            calls, disp, shown>>

Init ==
    /\ (df \in Datasets \/ df \in ExampleDatasets)
    /\ ref = NoRef
    /\ op = "idle"
    /\ rate = NaN
    /\ tbl = <<>>
    /\ raised = FALSE
    /\ UIIdle

CallSelectionRate ==
    /\ op = "idle"
    /\ op' = "selection_rate"
    /\ rate' = selection_rate(df)
    /\ UNCHANGED <<df, ref, tbl, raised>>
    /\ UNCHANGED UIVars

CallGroupRates ==
    /\ op = "idle"
    /\ op' = "group_rates"
    /\ IF GroupRatesRaises(df)
       THEN raised' = TRUE /\ tbl' = tbl
       ELSE raised' = FALSE /\ tbl' \in group_rates(df)
    /\ UNCHANGED <<df, ref, rate>>
    /\ UNCHANGED UIVars

\* rate keeps the overall rate of line 47 when the call returns
CallDisparityTable ==
    /\ op = "idle"
    /\ op' = "disparity_table"
    /\ \E r \in RefArgs :
          /\ ref' = r
          /\ IF GroupRatesRaises(df)
             THEN raised' = TRUE /\ tbl' = tbl /\ rate' = rate
             ELSE /\ raised' = FALSE
                  /\ tbl' \in disparity_table(df, r)
                  /\ rate' = selection_rate(df)
    /\ UNCHANGED df
    /\ UNCHANGED UIVars

Next == CallSelectionRate \/ CallGroupRates \/ CallDisparityTable

Spec == Init /\ [][Next]_vars

(* ------------------------------ the script ---------------------------- *)
\* the keys of col_map_defaults (lines 94-106)
Keys == {"school_year", "grade", "gender", "race_ethnicity", "ell", "iep",
         "frl", "referred", "tested", "qualified", "placed"}

\* line 126 without "placed" (mutant of Required)
RequiredWithoutPlaced ==
    {"school_year", "grade", "gender", "race_ethnicity", "referred", "tested",
     "qualified"}

\* line 126
Required ==
    {"school_year", "grade", "gender", "race_ethnicity", "referred", "tested",
     "qualified", "placed"}

col_map_defaults == [k \in Keys |-> k]

\* what the user may type into the column-mapping inputs
ColMaps == {col_map_defaults, [col_map_defaults EXCEPT !["gender"] = "sex"]}

\* the header rows of the uploaded files
Headers ==
    {Keys,
     (Keys \ {"gender"}) \cup {"sex"},
     Keys \ {"placed"},
     (Keys \ {"gender", "ell"}) \cup {"sex"}}

\* line 123-124: a column named col_map[k], k itself excepted, is renamed k
Renamed(cols, cm) ==
    {IF \E k \in Keys : cm[k] = c /\ cm[k] # k
     THEN CHOOSE k \in Keys : cm[k] = c /\ cm[k] # k
     ELSE c : c \in cols}

SchoolYears == {"2023-24", "2024-25"}

\* .str.extract(r"(\d{4})").astype(float): the first run of four digits, NaN
\* (here 0) when there is none
ExtractYear(s) ==
    CASE s = "2023-24" -> 2023
      [] s = "2024-25" -> 2024
      [] OTHER -> 0

UICells == {Num(1), StrCell}

UIRows == [y : SchoolYears, g : LabelSet, v : UICells]

UIDatasets == UNION {[1..n -> UIRows] : n \in 0..MaxRowsUI}

\* pd.to_numeric(errors="coerce") on the outcome column: text becomes NaN
ToNumeric(d) ==
    [i \in 1..Len(d) |->
        [d[i] EXCEPT !.v = IF d[i].v.t = "str" THEN NaNCell ELSE d[i].v]]

\* _year.max() skips NaN; NaN (0) when no row has a year
MaxYear(d) ==
    LET ys == {ExtractYear(d[i].y) : i \in 1..Len(d)} \ {0}
    IN  IF ys = {} THEN 0 ELSE CHOOSE m \in ys : \A z \in ys : z <= m

\* df[df["_year"] == df["_year"].max()]: NaN equals nothing
LatestYear(d) ==
    SelectSeq(d, LAMBDA r : ExtractYear(r.y) # 0 /\ ExtractYear(r.y) = MaxYear(d))

\* line 152: tbl[tbl["n"] >= min_group_size]
MinSizeFilter(t, m) == SelectSeq(t, LAMBDA r : r.n >= m)

\* disparity_table(df, ...) on the unfiltered frame (mutant of IsIn)
NoIsIn(d, t) == d

\* line 157: df[df[group_col].isin(tbl[group_col])]; isin matches NaN to NaN
IsIn(d, t) == SelectSeq(d, LAMBDA r : \E i \in 1..Len(t) : t[i].g = r.g)

AnalyzerIdle ==
    /\ ref = NoRef
    /\ op = "idle"
    /\ rate = NaN
    /\ raised = FALSE

AnalyzerVars == <<ref, op, rate, raised>>

Widgets == <<col_map, use_latest_year, min_group_size>>

InitUI ==
    /\ pc = "start"
    /\ uploaded \in BOOLEAN
    /\ col_map \in ColMaps
    /\ use_latest_year \in BOOLEAN
    /\ min_group_size \in 1..MaxMinGroupSize
    /\ df = <<>>
    /\ columns = {}
    /\ tbl = <<>>
    /\ calls = <<>>
    /\ disp = <<>>
    /\ shown = {}
    /\ AnalyzerIdle

\* line 117-119
NoUpload ==
    /\ pc = "start"
    /\ ~uploaded
    /\ shown' = shown \cup {"info"}
    /\ pc' = "stopped"
    /\ UNCHANGED <<df, columns, tbl, calls, disp, uploaded>>
    /\ UNCHANGED Widgets
    /\ UNCHANGED AnalyzerVars

\* line 121-124
ReadCsv ==
    /\ pc = "start"
    /\ uploaded
    /\ \E h \in Headers : columns' = Renamed(h, col_map)
    /\ df' \in UIDatasets
    /\ pc' = "validate"
    /\ UNCHANGED <<tbl, calls, disp, shown, uploaded>>
    /\ UNCHANGED Widgets
    /\ UNCHANGED AnalyzerVars

\* line 126-130, then 132-134 when nothing is missing
Validate ==
    /\ pc = "validate"
    /\ IF Required \ columns # {}
       THEN /\ shown' = shown \cup {"error"}
            /\ pc' = "stopped"
            /\ df' = df
       ELSE /\ shown' = shown
            /\ pc' = "filter"
            /\ df' = ToNumeric(df)
    /\ UNCHANGED <<columns, tbl, calls, disp, uploaded>>
    /\ UNCHANGED Widgets
    /\ UNCHANGED AnalyzerVars

\* line 136-146
FilterAndMetrics ==
    /\ pc = "filter"
    /\ df' = IF use_latest_year THEN LatestYear(df) ELSE df
    /\ calls' = calls \o <<"selection_rate", "selection_rate", "selection_rate">>
    /\ shown' = shown \cup {"metrics"}
    /\ pc' = "group"
    /\ UNCHANGED <<columns, tbl, disp, uploaded>>
    /\ UNCHANGED Widgets
    /\ UNCHANGED AnalyzerVars

\* line 150-152
GroupTable ==
    /\ pc = "group"
    /\ calls' = calls \o <<"group_rates">>
    /\ IF GroupRatesRaises(df)
       THEN pc' = "crashed" /\ tbl' = tbl
       ELSE /\ pc' = "display"
            /\ \E t \in group_rates(df) : tbl' = MinSizeFilter(t, min_group_size)
    /\ UNCHANGED <<df, columns, disp, shown, uploaded>>
    /\ UNCHANGED Widgets
    /\ UNCHANGED AnalyzerVars

\* line 154-166, then 168-183
Display ==
    /\ pc = "display"
    /\ IF Len(tbl) = 0
       THEN /\ shown' = shown \cup {"warning", "funnel"}
            /\ UNCHANGED <<calls, disp>>
            /\ pc' = "done"
       ELSE /\ calls' = calls \o <<"disparity_table">>
            /\ IF GroupRatesRaises(IsIn(df, tbl))
               THEN pc' = "crashed" /\ UNCHANGED <<disp, shown>>
               ELSE /\ disp' \in disparity_table(IsIn(df, tbl), NoRef)
                    /\ shown' = shown \cup {"table", "chart", "funnel"}
                    /\ pc' = "done"
    /\ UNCHANGED <<df, columns, tbl, uploaded>>
    /\ UNCHANGED Widgets
    /\ UNCHANGED AnalyzerVars

NextUI ==
    NoUpload \/ ReadCsv \/ Validate \/ FilterAndMetrics \/ GroupTable \/ Display

SpecUI == InitUI /\ [][NextUI]_vars

(* ------------------------------- claims ------------------------------- *)
One == <<1, 1>>

FGe(a, b) == ~IsNaN(a) /\ ~IsNaN(b) /\ a[1] * b[2] >= b[1] * a[2]

InUnit(x) == FGe(x, Zero) /\ FGe(One, x)

HasNumeric(d) == \E i \in 1..Len(d) : d[i].v.t = "num"

HasText(d) == \E i \in 1..Len(d) : d[i].v.t = "str"

AllMissing(d) == \A i \in 1..Len(d) : d[i].v.t = "nan"

ZeroOneOrMissing(d) ==
    \A i \in 1..Len(d) : d[i].v.t = "num" => d[i].v.x \in {0, 1}

AllZeroOne(d) ==
    \A i \in 1..Len(d) : d[i].v.t = "num" /\ d[i].v.x \in {0, 1}

Returned(o) == op = o /\ ~raised

\* C1 as stated: selection_rate is NaN exactly when the dataset has no rows
\* or the outcome column has no numeric value, and lies in [0, 1] when all
\* outcome values are 0 or 1.
C1_AsStated ==
    op = "selection_rate" =>
        /\ IsNaN(rate) <=> (Len(df) = 0 \/ ~HasNumeric(df))
        /\ (AllZeroOne(df) /\ Len(df) > 0 => InUnit(rate))

\* C1 amended: selection_rate is NaN exactly when the dataset has no rows or
\* the outcome column holds a text value float() cannot convert; a non-empty
\* column of missing values only gives 0; with all values 0 or 1 on a
\* non-empty dataset the rate is a number in [0, 1].
C1_UndefinedIffEmptyOrText ==
    op = "selection_rate" =>
        /\ IsNaN(rate) <=> (Len(df) = 0 \/ HasText(df))
        /\ (Len(df) > 0 /\ AllMissing(df) => rate = Zero)
        /\ (AllZeroOne(df) /\ Len(df) > 0 => InUnit(rate))

C1_Witness ==
    /\ op = "selection_rate"
    /\ Len(df) = 2
    /\ AllMissing(df)
    /\ rate = Zero

RECURSIVE SumN(_, _)
SumN(t, i) == IF i > Len(t) THEN 0 ELSE t[i].n + SumN(t, i + 1)

CountLabel(d, k) == Cardinality({i \in 1..Len(d) : d[i].g = k})

RateDescendingUndefinedLast(t) ==
    \A i, j \in 1..Len(t) : i < j =>
        /\ ~FGt(t[j].rate, t[i].rate)
        /\ (IsNaN(t[i].rate) => IsNaN(t[j].rate))

FirstIndex(d, k) == CHOOSE i \in 1..Len(d) : d[i].g = k /\ \A j \in 1..(i - 1) : d[j].g # k

\* C3 as stated: group_rates is ordered by rate descending, undefined rates
\* last, and groups of equal rate come in the order in which their label
\* first occurs in the dataset.
C3_AsStated ==
    Returned("group_rates") =>
        /\ RateDescendingUndefinedLast(tbl)
        /\ \A i, j \in 1..Len(tbl) :
              i < j /\ ~IsNaN(tbl[i].rate) /\ tbl[i].rate = tbl[j].rate =>
                 FirstIndex(df, tbl[i].g) < FirstIndex(df, tbl[j].g)

\* C3 amended: group_rates is ordered by rate descending with the groups of
\* undefined rate last (no order among groups of equal rate is promised).
C3_RateDescending ==
    Returned("group_rates") => RateDescendingUndefinedLast(tbl)

C3_Witness ==
    /\ Returned("group_rates")
    /\ Len(tbl) = 3
    /\ FGt(tbl[1].rate, tbl[2].rate)
    /\ IsNaN(tbl[3].rate)
    /\ df[1].g = tbl[3].g

\* C4 as stated: on a non-empty dataset with no reference given, the row of
\* the default reference group (the first row) has rate_vs_ref = 1.
C4_AsStated ==
    op = "disparity_table" /\ ref = NoRef /\ Len(df) > 0 =>
        /\ ~raised
        /\ tbl[1].reference_group = tbl[1].g
        /\ tbl[1].rate_vs_ref = One

\* C4 amended: on a non-empty dataset with no reference given, the reference
\* is the label of the first row, a group of the highest rate; that row has
\* rate_vs_ref = 1 when its label is not missing and its rate is positive,
\* an undefined rate_vs_ref when its label is not missing and its rate is
\* zero or undefined, and when its label is missing the reference rate is
\* the overall rate, so every rate_vs_ref equals risk_ratio_vs_overall.
C4_DefaultReferenceIsOne ==
    op = "disparity_table" /\ ref = NoRef /\ Len(df) > 0 =>
        /\ ~raised
        /\ tbl[1].reference_group = tbl[1].g
        /\ \A i \in 1..Len(tbl) : ~FGt(tbl[i].rate, tbl[1].rate)
        /\ (tbl[1].g # NULL /\ FGt(tbl[1].rate, Zero) => tbl[1].rate_vs_ref = One)
        /\ (tbl[1].g # NULL /\ ~FGt(tbl[1].rate, Zero) => IsNaN(tbl[1].rate_vs_ref))
        /\ (tbl[1].g = NULL =>
              \A i \in 1..Len(tbl) : tbl[i].rate_vs_ref = tbl[i].risk_ratio_vs_overall)

C4_Witness ==
    /\ Returned("disparity_table")
    /\ ref = NoRef
    /\ Len(tbl) = 2
    /\ tbl[1].g # NULL
    /\ tbl[1].rate_vs_ref = One
    /\ tbl[2].rate_vs_ref = <<1, 2>>

\* C5: with a reference label that is no group of the data, disparity_table
\* does not fail and every row has rate_vs_ref = risk_ratio_vs_overall.
C5_FallbackToOverall ==
    op = "disparity_table" /\ ref # NoRef /\ ~HasLabel(df, ref) =>
        /\ ~raised
        /\ \A i \in 1..Len(tbl) : tbl[i].rate_vs_ref = tbl[i].risk_ratio_vs_overall

\* the part of C5 that holds: on a dataset with at least one row the call
\* returns and every row has rate_vs_ref = risk_ratio_vs_overall
C5_FallbackOnNonEmpty ==
    op = "disparity_table" /\ ref # NoRef /\ ~HasLabel(df, ref) /\ Len(df) > 0 =>
        /\ ~raised
        /\ \A i \in 1..Len(tbl) : tbl[i].rate_vs_ref = tbl[i].risk_ratio_vs_overall

\* C6 as stated: with non-negative outcome values, counts above 1 included,
\* every rate (overall and per group) is in [0, 1] or undefined.
C6_AsStated ==
    /\ op \in {"selection_rate", "disparity_table"} /\ ~raised =>
          IsNaN(rate) \/ InUnit(rate)
    /\ op \in {"group_rates", "disparity_table"} /\ ~raised =>
          \A i \in 1..Len(tbl) : IsNaN(tbl[i].rate) \/ InUnit(tbl[i].rate)

\* C6 amended: when every numeric outcome value is 0 or 1, every rate
\* (overall and per group) is in [0, 1] or undefined.
C6_RatesInUnitInterval ==
    ZeroOneOrMissing(df) => C6_AsStated

C6_Witness ==
    /\ Returned("disparity_table")
    /\ ZeroOneOrMissing(df)
    /\ Len(tbl) = 2
    /\ rate = <<2, 3>>
    /\ tbl[1].rate = One
    /\ tbl[2].rate = <<1, 2>>

\* C7: disparity_table returns a table for every dataset and reference; with
\* the overall rate undefined every rate_diff_vs_overall and
\* risk_ratio_vs_overall is undefined, with the overall rate zero every
\* risk_ratio_vs_overall is undefined, and with the reference rate zero or
\* undefined every rate_vs_ref is undefined.
C7_UndefinedPropagates ==
    op = "disparity_table" =>
        /\ ~raised
        /\ LET overall == selection_rate(df)
               ref_rate == RefRate(tbl, tbl[1].reference_group, overall)
           IN  \A i \in 1..Len(tbl) :
                  /\ IsNaN(overall) =>
                        IsNaN(tbl[i].rate_diff_vs_overall)
                        /\ IsNaN(tbl[i].risk_ratio_vs_overall)
                  /\ overall = Zero => IsNaN(tbl[i].risk_ratio_vs_overall)
                  /\ (IsNaN(ref_rate) \/ ref_rate = Zero) => IsNaN(tbl[i].rate_vs_ref)

\* the part of C7 that holds: the same on datasets with at least one row
C7_PropagatesOnNonEmpty == Len(df) > 0 => C7_UndefinedPropagates

\* C9: with the overall rate positive and a reference that is a group of
\* the data with a positive rate, every row has rate_diff_vs_overall =
\* rate - overall, risk_ratio_vs_overall = rate / overall, rate_vs_ref =
\* rate / (rate of the reference group) and carries the reference label; in
\* the example (6 F rows, 3 qualified; 4 M rows, 1 qualified; reference F)
\* the M row has 1/4, -3/20, 5/8 and 1/2.
RateOf(t, k) == (CHOOSE r \in {t[i] : i \in 1..Len(t)} : r.g = k).rate

IsExample(d) ==
    /\ d \in ExampleDatasets
    /\ NanSum(Column(SubDf(d, "F"))) = 3
    /\ NanSum(Column(SubDf(d, "M"))) = 1

C9_DisparityFormulas ==
    /\ Returned("disparity_table") /\ ref # NoRef /\ HasLabel(df, ref)
          /\ FGt(rate, Zero) /\ FGt(RateOf(tbl, ref), Zero) =>
          \A i \in 1..Len(tbl) :
             /\ tbl[i].rate = Float(NanSum(Column(SubDf(df, tbl[i].g))), CountLabel(df, tbl[i].g))
             /\ rate = Float(NanSum(Column(df)), Len(df))
             /\ tbl[i].rate_diff_vs_overall[1] * tbl[i].rate[2] * rate[2]
                   = (tbl[i].rate[1] * rate[2] - rate[1] * tbl[i].rate[2])
                        * tbl[i].rate_diff_vs_overall[2]
             /\ ~IsNaN(tbl[i].rate_diff_vs_overall)
             /\ tbl[i].risk_ratio_vs_overall[1] * rate[1] * tbl[i].rate[2]
                   = tbl[i].rate[1] * tbl[i].risk_ratio_vs_overall[2] * rate[2]
             /\ tbl[i].rate_vs_ref[1] * RateOf(tbl, ref)[1] * tbl[i].rate[2]
                   = tbl[i].rate[1] * tbl[i].rate_vs_ref[2] * RateOf(tbl, ref)[2]
             /\ ~IsNaN(tbl[i].risk_ratio_vs_overall)
             /\ ~IsNaN(tbl[i].rate_vs_ref)
             /\ tbl[i].reference_group = ref
    /\ Returned("disparity_table") /\ ref = "F" /\ IsExample(df) =>
          /\ rate = <<2, 5>>
          /\ Len(tbl) = 2
          /\ tbl[1].g = "F" /\ tbl[1].rate = <<1, 2>> /\ tbl[1].n = 6
          /\ tbl[2].g = "M" /\ tbl[2].rate = <<1, 4>> /\ tbl[2].n = 4
          /\ tbl[2].rate_diff_vs_overall = <<0 - 3, 20>>
          /\ tbl[2].risk_ratio_vs_overall = <<5, 8>>
          /\ tbl[2].rate_vs_ref = <<1, 2>>

C9_Witness ==
    /\ Returned("disparity_table")
    /\ ref = "F"
    /\ IsExample(df)
    /\ tbl[2].rate_vs_ref = <<1, 2>>

\* the required columns as the claim lists them
C8_Columns ==
    {"school_year", "grade", "gender", "race_ethnicity", "referred", "tested",
     "qualified", "placed"}

C8_Analyzed ==
    \/ calls # <<>>
    \/ tbl # <<>>
    \/ disp # <<>>
    \/ pc \in {"filter", "group", "display", "done", "crashed"}

\* C8: with no file uploaded, or with a required column absent after the
\* remapping, the run reports it and stops: no analyzer function is called.
C8_NoAnalysisWithoutColumns ==
    /\ ~uploaded => ~C8_Analyzed /\ pc \in {"start", "stopped"}
    /\ pc # "start" /\ C8_Columns \ columns # {} =>
          ~C8_Analyzed /\ pc \in {"validate", "stopped"}
    /\ pc = "stopped" =>
          \/ ~uploaded /\ shown = {"info"}
          \/ uploaded /\ C8_Columns \ columns # {} /\ shown = {"error"}

C8_Witness ==
    /\ pc = "stopped"
    /\ uploaded
    /\ "sex" \in columns
    /\ "placed" \in columns
    /\ shown = {"error"}
    /\ Len(df) > 0
    /\ calls = <<>>

Called(f) == \E i \in 1..Len(calls) : calls[i] = f

\* the rows of the groups of at least m rows
Retained(d, m) == SelectSeq(d, LAMBDA r : CountLabel(d, r.g) >= m)

\* the part of C10 about what is displayed: every group of the bar chart
\* (tbl) and of the displayed disparity table has n >= min_group_size, and
\* the table's overall rate and reference are those of the retained rows
C10_DisplayedGroupsMeetMinimum ==
    /\ pc \in {"display", "done"} =>
          \A i \in 1..Len(tbl) :
             tbl[i].n >= min_group_size /\ tbl[i].n = CountLabel(df, tbl[i].g)
    /\ "table" \in shown =>
          /\ Len(disp) = Len(tbl)
          /\ \A i \in 1..Len(disp) :
                /\ disp[i].n >= min_group_size
                /\ disp[i].n = CountLabel(df, disp[i].g)
                /\ disp[i].rate_diff_vs_overall =
                      FSub(disp[i].rate, selection_rate(Retained(df, min_group_size)))
                /\ disp[i].reference_group = disp[1].g
    /\ pc = "done" /\ "warning" \in shown =>
          /\ Retained(df, min_group_size) = <<>>
          /\ ~Called("disparity_table")
          /\ "table" \notin shown /\ "chart" \notin shown

\* C10: everything displayed obeys the min_group_size filter, and a run in
\* which no group meets the threshold shows a warning and does not call
\* disparity_table.
C10_MinGroupSizeFilter ==
    /\ C10_DisplayedGroupsMeetMinimum
    /\ pc \in {"done", "crashed"} /\ Retained(df, min_group_size) = <<>> =>
          "warning" \in shown /\ ~Called("disparity_table")

====
